---------------------------- MODULE Spec2Model ----------------------------
(***************************************************************************)
(* Model of the production-shortage planner of src/app.py: the load stage  *)
(* (load_ref, load_prp), the Aggregator (process_data), the                *)
(* ShortageProjector (compute_shortages), the PrioritySequencer            *)
(* (build_priority) and the display filter of main.                        *)
(*                                                                         *)
(* Conventions.  A text value (part number, customer, description) is a    *)
(* sequence of one-character strings, so that upper() and the substring    *)
(* test are computed.  A nullable number is a tuple: NaN is <<>> and the   *)
(* number n is <<n>>.  A data frame is the sequence of its rows, each a    *)
(* record whose fields are the frame's columns.                            *)
(***************************************************************************)
EXTENDS Integers, Sequences, FiniteSets, TLC

VARIABLES
    pc,            \* position of main(): the next stage to run
    msg,           \* the message main() ends with ("" while running)
    ref_file,      \* rows of the reference CSV as read by read_local_ref
    prp_file,      \* the PRP CSV as read by read_csv_url: date headers, rows
    ref_df,        \* load_ref's frame (pack, pack_faltante added)
    parts_ref,     \* load_ref's list of unique part numbers
    prp_df,        \* load_prp's frame (customer releases only)
    date_cols,     \* load_prp's detected date columns
    base_df,       \* process_data's PartBaseline
    demand_df,     \* process_data's DemandEntry collection
    shortages_df,  \* compute_shortages' events
    ledger,        \* the running balance of compute_shortages, entry by entry
    priority_df,   \* build_priority's queue
    display_df,    \* the rows main() displays and exports
    now,           \* the clock, in seconds
    source,        \* the version of the content behind each load stage
    cache,         \* the entries st.cache_data holds for the readers and loaders
    last_load,     \* what the latest call of each load stage returned, and when
    data,          \* ReferenceData.data: the table of the store, row by row
    reference_data,\* what save() last wrote: st.session_state['reference_data']
    saved,         \* whether the latest call on the store reached save()
    returned       \* the latest call on the store and what it returned

run_vars == <<pc, msg, ref_file, prp_file, ref_df, parts_ref, prp_df, date_cols,
              base_df, demand_df, shortages_df, ledger, priority_df, display_df>>

cache_vars == <<now, source, cache, last_load>>

store_vars == <<data, reference_data, saved, returned>>

vars == <<run_vars, cache_vars, store_vars>>

---------------------------------------------------------------------------
(* Nullable numbers *)

NaN == <<>>

Num(n) == <<n>>

isna(x) == x = <<>>

Val(x) == x[1]

Max(a, b) == IF b > a THEN b ELSE a

Min(a, b) == IF b < a THEN b ELSE a

\* x.fillna(0)
fillna0(x) == IF isna(x) THEN 0 ELSE Val(x)

\* math.ceil(a / b) for b > 0
Ceil(a, b) == IF a >= 0 THEN (a + b - 1) \div b ELSE -((-a) \div b)

\* math.floor(a / b) for b > 0 (\div rounds towards minus infinity)
Floor(a, b) == a \div b

RECURSIVE Sum(_)
Sum(s) == IF s = <<>> THEN 0 ELSE Head(s) + Sum(Tail(s))

Range(s) == {s[i] : i \in 1..Len(s)}

\* the sub-sequence of the elements that satisfy Test, in order
RECURSIVE SelectIdx(_, _, _)
SelectIdx(s, keep, i) ==
    IF i > Len(s) THEN <<>>
    ELSE (IF i \in keep THEN <<s[i]>> ELSE <<>>) \o SelectIdx(s, keep, i + 1)

\* Series.unique(): the distinct values in order of first appearance
RECURSIVE Unique(_)
Unique(s) ==
    IF s = <<>> THEN <<>>
    ELSE LET init == Unique(SubSeq(s, 1, Len(s) - 1))
             last == s[Len(s)]
         IN  IF last \in Range(init) THEN init ELSE Append(init, last)

\* the 0-based position of v in a sequence of distinct values
IndexOf(s, v) == (CHOOSE i \in 1..Len(s) : s[i] = v) - 1

---------------------------------------------------------------------------
(* Text *)

Alphabet ==
    <<" ", "0", "1", "2", "3", "4", "5", "6", "7", "8", "9",
      "A", "B", "C", "D", "E", "F", "G", "H", "I", "J", "K", "L", "M",
      "N", "O", "P", "Q", "R", "S", "T", "U", "V", "W", "X", "Y", "Z",
      "a", "b", "c", "d", "e", "f", "g", "h", "i", "j", "k", "l", "m",
      "n", "o", "p", "q", "r", "s", "t", "u", "v", "w", "x", "y", "z">>

\* the rank of each character in code-point order
Ranks == [c \in {Alphabet[i] : i \in 1..Len(Alphabet)} |->
            CHOOSE i \in 1..Len(Alphabet) : Alphabet[i] = c]

Ord(c) == Ranks[c]

UpperChar(c) == IF Ord(c) >= Ord("a") THEN Alphabet[Ord(c) - 26] ELSE c

\* str.upper()
upper(s) == [i \in 1..Len(s) |-> UpperChar(s[i])]

\* str.strip()
RECURSIVE lstrip(_)
lstrip(s) == IF s # <<>> /\ Head(s) = " " THEN lstrip(Tail(s)) ELSE s

RECURSIVE rstrip(_)
rstrip(s) ==
    IF s # <<>> /\ s[Len(s)] = " " THEN rstrip(SubSeq(s, 1, Len(s) - 1)) ELSE s

strip(s) == rstrip(lstrip(s))

\* sub in s
Contains(s, sub) ==
    \E i \in 0..(Len(s) - Len(sub)) : SubSeq(s, i + 1, i + Len(sub)) = sub

\* s < t in the order Python and pandas sort text by
StrLess(s, t) ==
    \/ /\ Len(s) < Len(t)
       /\ SubSeq(t, 1, Len(s)) = s
    \/ \E i \in 1..Min(Len(s), Len(t)) :
          /\ Ord(s[i]) < Ord(t[i])
          /\ SubSeq(s, 1, i - 1) = SubSeq(t, 1, i - 1)

\* the values of a set of texts in ascending order
RECURSIVE SortedTexts(_)
SortedTexts(S) ==
    IF S = {} THEN <<>>
    ELSE LET m == CHOOSE x \in S : \A y \in S \ {x} : StrLess(x, y)
         IN  <<m>> \o SortedTexts(S \ {m})

\* a missing text (None / NaN), and the empty string, which read_csv never
\* yields
None == <<>>


LowerChar(c) ==
    IF Ord(c) >= Ord("A") /\ Ord(c) <= Ord("Z") THEN Alphabet[Ord(c) + 26] ELSE c

\* str.lower()
lower(s) == [i \in 1..Len(s) |-> LowerChar(s[i])]

---------------------------------------------------------------------------
(* load_ref *)

\* pack_of with stdpack_min looked at ahead of stdpack_max
pack_of_min_first(r) ==
    IF ~isna(r.stdpack_min) /\ Val(r.stdpack_min) > 0 THEN r.stdpack_min
    ELSE IF ~isna(r.stdpack_max) /\ Val(r.stdpack_max) > 0 THEN r.stdpack_max
    ELSE NaN

\* the pack of a reference row: stdpack_max if valid, else stdpack_min if
\* valid, else NaN
pack_of(r) ==
    IF ~isna(r.stdpack_max) /\ Val(r.stdpack_max) > 0 THEN r.stdpack_max
    ELSE IF ~isna(r.stdpack_min) /\ Val(r.stdpack_min) > 0 THEN r.stdpack_min
    ELSE NaN

\* load_ref(path): the frame with partno stripped and pack, pack_faltante
\* added, and the list of unique part numbers
load_ref(file) ==
    IF file = <<>> THEN [df |-> <<>>, parts_ref |-> <<>>]
    ELSE LET df == [i \in 1..Len(file) |->
                      [partno        |-> strip(file[i].partno),
                       stdpack_min   |-> file[i].stdpack_min,
                       stdpack_max   |-> file[i].stdpack_max,
                       customer      |-> file[i].customer,
                       desc          |-> file[i].desc,
                       rate          |-> file[i].rate,
                       pack          |-> pack_of(file[i]),
                       pack_faltante |-> isna(pack_of(file[i]))]]
         IN  [df |-> df,
              parts_ref |-> Unique([i \in 1..Len(df) |-> df[i].partno])]

---------------------------------------------------------------------------
(* load_prp *)

CustomerReleases ==
    <<"c", "u", "s", "t", "o", "m", "e", "r", " ",
      "r", "e", "l", "e", "a", "s", "e", "s">>

\* is_customer_releases with the value only required to start with
\* "customer"
is_customer_releases_by_prefix(demand_type) ==
    LET t == strip(lower(demand_type))
    IN  Len(t) >= 8 /\ SubSeq(t, 1, 8) = SubSeq(CustomerReleases, 1, 8)

\* df[demand_col].astype(str).str.lower().str.strip() == "customer releases"
is_customer_releases(demand_type) ==
    strip(lower(demand_type)) = CustomerReleases

\* detect_date_cols: every header of the form MM/DD/YYYY.  A header of the
\* model is [day, pad]: the text "1/<day>/2025", or "01/0<day>/2025" when
\* pad, so all headers of a file are date columns
detect_date_cols(headers) == headers

\* pd.to_datetime(date_col, format='%m/%d/%Y').date(): both spellings of a
\* day parse to the same date
ParseDate(h) == h.day

\* load_prp(url): the customer-releases rows with Part No stripped, and the
\* date columns
load_prp(file) ==
    IF file.rows = <<>> THEN [df |-> <<>>, date_cols |-> <<>>]
    ELSE LET keep == {i \in 1..Len(file.rows) :
                        is_customer_releases(file.rows[i].demand_type)}
             kept == SelectIdx(file.rows, keep, 1)
         IN  [df |-> [i \in 1..Len(kept) |->
                        [demand_type |-> kept[i].demand_type,
                         Part_No     |-> strip(kept[i].Part_No),
                         Inv_FG      |-> kept[i].Inv_FG,
                         Customer    |-> kept[i].Customer,
                         qty         |-> kept[i].qty]],
              date_cols |-> detect_date_cols(file.headers)]

---------------------------------------------------------------------------
(* process_data *)

\* the keys of df.groupby(col), which pandas sorts ascending
group_keys(df) == SortedTexts({df[i].Part_No : i \in 1..Len(df)})

\* the rows of one group, in frame order
group_rows(df, part) == SelectIdx(df, {i \in 1..Len(df) : df[i].Part_No = part}, 1)

\* first_valid with the non-null values of the group added up
sum_valid(s) ==
    IF \A i \in 1..Len(s) : isna(s[i]) THEN NaN
    ELSE Num(Sum([i \in 1..Len(s) |-> fillna0(s[i])]))

\* GroupBy.first(): the first non-null value of the group, NaN if none
RECURSIVE first_valid(_)
first_valid(s) ==
    IF s = <<>> THEN NaN
    ELSE IF ~isna(Head(s)) THEN Head(s) ELSE first_valid(Tail(s))

\* GroupBy.sum(): NaN cells are skipped
group_sum(cells) == Sum([i \in 1..Len(cells) |-> fillna0(cells[i])])

\* x.mode()[0] if not x.mode().empty else None: the most frequent non-null
\* value, the smallest of them on a tie
mode_or_none(s) ==
    LET vals     == {s[i] : i \in {j \in 1..Len(s) : s[j] # None}}
        count(v) == Cardinality({i \in 1..Len(s) : s[i] = v})
        modes    == {v \in vals : \A w \in vals : count(w) <= count(v)}
    IN  IF vals = {} THEN None ELSE SortedTexts(modes)[1]

\* prp_df[prp_df[part_col].str.upper().isin([p.upper() for p in parts_ref])]
prp_filter(prp, parts) ==
    SelectIdx(prp,
              {i \in 1..Len(prp) :
                  upper(prp[i].Part_No) \in {upper(parts[k]) : k \in 1..Len(parts)}},
              1)

\* one date column's frame: the group-sum per part, dated by the header
date_demand(filtered, cols, c) ==
    LET keys == group_keys(filtered)
    IN  [k \in 1..Len(keys) |->
            [Part_No     |-> keys[k],
             Demanda_pzs |-> LET g == group_rows(filtered, keys[k])
                             IN  group_sum([i \in 1..Len(g) |-> g[i].qty[c]]),
             Fecha       |-> ParseDate(cols[c])]]

\* pd.concat(demand_by_date): the date columns' frames one after the other
RECURSIVE concat_demand(_, _, _)
concat_demand(filtered, cols, c) ==
    IF c > Len(cols) THEN <<>>
    ELSE date_demand(filtered, cols, c) \o concat_demand(filtered, cols, c + 1)

\* the rows a left merge on 'Part No' gives one baseline row: one per
\* matching reference row, or one with missing reference fields
merge_ref(left, ref) ==
    LET hits == SelectIdx(ref, {i \in 1..Len(ref) : ref[i].partno = left.Part_No}, 1)
        row(pack, faltante, cust, desc, rate) ==
            [Part_No       |-> left.Part_No,
             InvFG_pzs     |-> left.InvFG_pzs,
             Cliente_prp   |-> left.Cliente_prp,
             pack          |-> pack,
             pack_faltante |-> faltante,
             Customer_ref  |-> cust,
             Descripcion   |-> desc,
             Rate          |-> rate,
             Cliente       |-> IF left.Cliente_prp # None
                               THEN left.Cliente_prp ELSE cust]
    IN  IF hits = <<>> THEN <<row(NaN, NaN, None, None, NaN)>>
        ELSE [i \in 1..Len(hits) |->
                 row(hits[i].pack, <<hits[i].pack_faltante>>, hits[i].customer,
                     hits[i].desc, Num(hits[i].rate))]

RECURSIVE merge_all(_, _)
merge_all(lefts, ref) ==
    IF lefts = <<>> THEN <<>>
    ELSE merge_ref(Head(lefts), ref) \o merge_all(Tail(lefts), ref)

\* process_data without the check of ref_df.empty, and with an empty list of
\* reference parts taken as no restriction
process_data_without_reference(ref, prp, cols, parts) ==
    LET empty    == [base |-> <<>>, demand |-> <<>>]
        filtered == IF parts = <<>> THEN prp ELSE prp_filter(prp, parts)
        keys     == group_keys(filtered)
        lefts    == [k \in 1..Len(keys) |->
                       LET g == group_rows(filtered, keys[k])
                       IN  [Part_No     |-> keys[k],
                            InvFG_pzs   |-> first_valid([i \in 1..Len(g) |-> g[i].Inv_FG]),
                            Cliente_prp |-> mode_or_none([i \in 1..Len(g) |-> g[i].Customer])]]
    IN  IF prp = <<>> \/ cols = <<>> \/ filtered = <<>> THEN empty
        ELSE [base |-> merge_all(lefts, ref), demand |-> concat_demand(filtered, cols, 1)]

\* process_data(ref_df, prp_df, live_df, date_cols, parts_ref): the baseline
\* and the demand collection (the floor-inventory summary is not modelled)
process_data(ref, prp, cols, parts) ==
    LET empty    == [base |-> <<>>, demand |-> <<>>]
        filtered == prp_filter(prp, parts)
        keys     == group_keys(filtered)
        lefts    == [k \in 1..Len(keys) |->
                       LET g == group_rows(filtered, keys[k])
                       IN  [Part_No     |-> keys[k],
                            InvFG_pzs   |-> first_valid([i \in 1..Len(g) |-> g[i].Inv_FG]),
                            Cliente_prp |-> mode_or_none([i \in 1..Len(g) |-> g[i].Customer])]]
    IN  IF ref = <<>> \/ prp = <<>> THEN empty
        ELSE IF cols = <<>> THEN empty
        ELSE IF filtered = <<>> THEN empty
        ELSE [base |-> merge_all(lefts, ref), demand |-> concat_demand(filtered, cols, 1)]

---------------------------------------------------------------------------
(* compute_shortages *)

\* standard hours of output per shift, in tenths: the 22.5 of capacity_pcs
ShiftHoursTenths == 225

\* the row numbers of df ascending by Fecha, rows of one date in frame
\* order (up = TRUE) or in reverse frame order
order_by_Fecha(df, up) ==
    LET before(i, j) ==
            \/ df[i].Fecha < df[j].Fecha
            \/ df[i].Fecha = df[j].Fecha /\ (IF up THEN i < j ELSE j < i)
        pos(i) == 1 + Cardinality({j \in 1..Len(df) : before(j, i)})
    IN  [k \in 1..Len(df) |-> CHOOSE i \in 1..Len(df) : pos(i) = k]

\* demand_df.sort_values(by='Fecha'): a sort on one column uses quicksort,
\* which is not stable, so the order of the rows of one date is not fixed by
\* the call; the model lets them come out in frame order or reversed
sort_by_Fecha(df) ==
    {[k \in 1..Len(df) |-> df[order_by_Fecha(df, up)[k]]] : up \in BOOLEAN}

\* containers_for with the quotient rounded down
containers_floor(shortage, pack) ==
    IF isna(pack) \/ Val(pack) <= 0 THEN NaN ELSE Num(Floor(shortage, Val(pack)))

\* containers_for with 0 containers for a part without a valid pack
containers_zero_without_pack(shortage, pack) ==
    IF isna(pack) \/ Val(pack) <= 0 THEN Num(0) ELSE Num(Ceil(shortage, Val(pack)))

\* math.ceil(shortage / pack), NaN without a valid pack
containers_for(shortage, pack) ==
    IF isna(pack) \/ Val(pack) <= 0 THEN NaN ELSE Num(Ceil(shortage, Val(pack)))

\* capacity_cont with the quotient rounded up
capacity_cont_rounded_up(rate, pack) ==
    IF isna(pack) \/ ~(Val(pack) > 0) THEN 0
    ELSE Ceil(Val(rate) * ShiftHoursTenths, 1000 * Val(pack))

\* valid_pack and capacity_cont = floor((rate / 100 * 22.5) / pack)
capacity_cont(rate, pack) ==
    IF isna(pack) \/ ~(Val(pack) > 0) THEN 0
    ELSE Floor(Val(rate) * ShiftHoursTenths, 1000 * Val(pack))

\* shortage_of with the whole demand of an uncovered entry as its shortage
shortage_whole_demand(demand, inventory) ==
    IF isna(inventory) THEN 0
    ELSE IF demand > Val(inventory) THEN Max(0, demand) ELSE 0

\* shortage_of with a negative balance counted as an empty stock
shortage_over_empty_stock(demand, inventory) ==
    IF isna(inventory) THEN 0 ELSE Max(0, demand - Max(0, Val(inventory)))

\* max(0, demand - inventory); a NaN inventory compares false and leaves 0
shortage_of(demand, inventory) ==
    IF isna(inventory) THEN 0 ELSE Max(0, demand - Val(inventory))

\* next_inventory without the reset: the shortfall is carried as a negative
\* balance
next_inventory_carry(demand, inventory) ==
    IF isna(inventory) THEN NaN ELSE Num(Val(inventory) - demand)

\* next_inventory with the balance left as it was after a shortage
next_inventory_without_reset(demand, inventory) ==
    IF shortage_of(demand, inventory) > 0 THEN inventory
    ELSE IF isna(inventory) THEN NaN
    ELSE Num(Val(inventory) - demand)

\* next_inventory with the balance after a shortage set to the quantity of
\* the entry, as if the shipment had been produced twice
next_inventory_restocked(demand, inventory) ==
    IF shortage_of(demand, inventory) > 0 THEN Num(Max(0, demand))
    ELSE IF isna(inventory) THEN NaN
    ELSE Num(Val(inventory) - demand)

\* next_inventory with the balance left whole by a covered shipment
next_inventory_not_consumed(demand, inventory) ==
    IF shortage_of(demand, inventory) > 0 THEN Num(0) ELSE inventory

\* the balance after one entry: 0 after a shortage, else what is left
next_inventory(demand, inventory) ==
    IF shortage_of(demand, inventory) > 0 THEN Num(0)
    ELSE IF isna(inventory) THEN NaN
    ELSE Num(Val(inventory) - demand)

\* flag_after_event with the flag never cleared
flag_kept(is_first_shortage) == is_first_shortage

\* the flag after an event was appended
flag_after_event(is_first_shortage) == FALSE

\* the loop over one part's demands (date, demand), from entry k on:
\* the events appended and the balance after each entry
RECURSIVE part_pass(_, _, _, _, _)
part_pass(info, demands, k, inventory, is_first_shortage) ==
    IF k > Len(demands) THEN [events |-> <<>>, ledger |-> <<>>]
    ELSE
      LET date     == demands[k].Fecha
          demand   == demands[k].Demanda_pzs
          shortage == shortage_of(demand, inventory)
          after    == next_inventory(demand, inventory)
          entry    == [Part_No |-> info.Part_No, Fecha |-> date,
                       Demanda_pzs |-> demand, before |-> inventory,
                       after |-> after]
          event    == [Part_No                 |-> info.Part_No,
                       Fecha_Embarque          |-> date,
                       Inventario_Actual       |-> inventory,
                       Demanda_pzs             |-> demand,
                       Faltante_pzs            |-> shortage,
                       pack                    |-> info.pack,
                       Contenedores_a_producir |-> containers_for(shortage, info.pack),
                       Cliente                 |-> info.Cliente,
                       Descripcion             |-> info.Descripcion,
                       Rate                    |-> info.Rate,
                       Capacidad_turno_cont    |-> capacity_cont(info.Rate, info.pack),
                       Es_primer_faltante      |-> is_first_shortage,
                       Siguiente_embarque      |-> ~is_first_shortage]
          rest     == part_pass(info, demands, k + 1, after,
                                IF shortage > 0
                                THEN flag_after_event(is_first_shortage)
                                ELSE is_first_shortage)
      IN  [events |-> (IF shortage > 0 THEN <<event>> ELSE <<>>) \o rest.events,
           ledger |-> <<entry>> \o rest.ledger]

\* the loop over part_grouped_demand, from the n-th part on
RECURSIVE all_parts(_, _, _, _)
all_parts(base, sorted, parts, n) ==
    IF n > Len(parts) THEN [events |-> <<>>, ledger |-> <<>>]
    ELSE
      LET part_no == parts[n]
          rows    == {i \in 1..Len(base) : base[i].Part_No = part_no}
          rest    == all_parts(base, sorted, parts, n + 1)
      IN  IF rows = {} THEN rest
          ELSE
            LET \* part_info is the first row of the part, current_inventory
                \* keeps the value of its last row
                info    == base[CHOOSE i \in rows : \A j \in rows : i <= j]
                stock   == base[CHOOSE i \in rows : \A j \in rows : j <= i].InvFG_pzs
                demands == SelectIdx(sorted,
                               {i \in 1..Len(sorted) : sorted[i].Part_No = part_no}, 1)
                this    == part_pass(info, demands, 1, stock, TRUE)
            IN  [events |-> this.events \o rest.events,
                 ledger |-> this.ledger \o rest.ledger]

\* Contenedores_a_producir_limitado
limited(e) == Min(fillna0(e.Contenedores_a_producir), e.Capacidad_turno_cont)

\* compute_shortages(base_df, demand_df), with the order sort_values gave
\* demand_df: the events, as the frame pd.DataFrame(shortage_results) with
\* its row labels (index) 0, 1, ... and the capped column added, and the
\* balance ledger
compute_shortages(base, sorted) ==
    IF base = <<>> \/ sorted = <<>> THEN [events |-> <<>>, ledger |-> <<>>]
    ELSE
      LET parts == Unique([i \in 1..Len(sorted) |-> sorted[i].Part_No])
          run   == all_parts(base, sorted, parts, 1)
      IN  [events |-> [i \in 1..Len(run.events) |->
                         [f \in DOMAIN run.events[i]
                                  \cup {"index", "Contenedores_a_producir_limitado"} |->
                             CASE f = "index" -> i - 1
                               [] f = "Contenedores_a_producir_limitado" ->
                                      limited(run.events[i])
                               [] OTHER -> run.events[i][f]]],
           ledger |-> run.ledger]

---------------------------------------------------------------------------
(* build_priority *)

FORD == <<"F", "O", "R", "D">>

MAGNA == <<"M", "A", "G", "N", "A">>

\* customer_priority with MAGNA looked for ahead of FORD
customer_priority_magna_first(customer) ==
    IF customer = None THEN 999
    ELSE LET c == strip(upper(customer))
         IN  IF Contains(c, MAGNA) THEN 1
             ELSE IF Contains(c, FORD) THEN 0
             ELSE 2

\* customer_priority(customer): `not customer or pd.isna(customer)` is true
\* of None, of NaN and of the empty string, which are all None here
customer_priority(customer) ==
    IF customer = None THEN 999
    ELSE LET c == strip(upper(customer))
         IN  IF Contains(c, FORD) THEN 0
             ELSE IF Contains(c, MAGNA) THEN 1
             ELSE 2

\* part_priority counted down from the first part of the frame
part_priority_descending(df, part) ==
    0 - IndexOf(Unique([i \in 1..Len(df) |-> df[i].Part_No]), part)

\* part_priority: the position of each part in shortage_df['Part No'].unique()
part_priority(df, part) == IndexOf(Unique([i \in 1..Len(df) |-> df[i].Part_No]), part)

\* with_ranks with the customer's name stored as customer_priority
\* normalises it
with_ranks_customer_normalised(df) ==
    [i \in 1..Len(df) |->
        [f \in DOMAIN df[i] \cup {"cliente_priority", "part_priority"} |->
            CASE f = "cliente_priority" -> customer_priority(df[i].Cliente)
              [] f = "part_priority"    -> part_priority(df, df[i].Part_No)
              [] f = "Cliente"          -> IF df[i].Cliente = None THEN None
                                           ELSE strip(upper(df[i].Cliente))
              [] OTHER                  -> df[i][f]]]

\* shortage_df after the two rank columns were added to it
with_ranks(df) ==
    [i \in 1..Len(df) |->
        [f \in DOMAIN df[i] \cup {"cliente_priority", "part_priority"} |->
            CASE f = "cliente_priority" -> customer_priority(df[i].Cliente)
              [] f = "part_priority"    -> part_priority(df, df[i].Part_No)
              [] OTHER                  -> df[i][f]]]

\* sort_key with Es_primer_faltante ascending (False before True)
sort_key_first_ascending(r) ==
    <<IF r.Es_primer_faltante THEN 1 ELSE 0, r.part_priority,
      r.cliente_priority, r.Fecha_Embarque>>

\* sort_key with the date ahead of the part rank
sort_key_date_before_part(r) ==
    <<IF r.Es_primer_faltante THEN 0 ELSE 1, r.Fecha_Embarque,
      r.cliente_priority, r.part_priority>>

\* sort_key with the customer rank ahead of the part rank
sort_key_customer_before_part(r) ==
    <<IF r.Es_primer_faltante THEN 0 ELSE 1, r.cliente_priority,
      r.part_priority, r.Fecha_Embarque>>

\* the sort key of a row: by=[Es_primer_faltante, part_priority,
\* cliente_priority, Fecha_Embarque], ascending=[False, True, True, True]
sort_key(r) ==
    <<IF r.Es_primer_faltante THEN 0 ELSE 1, r.part_priority,
      r.cliente_priority, r.Fecha_Embarque>>

\* a < b for two keys, the first differing column deciding
LexLess(a, b) ==
    \E i \in 1..Len(a) : a[i] < b[i] /\ \A j \in 1..(i - 1) : a[j] = b[j]

\* comes_before with rows of equal keys in reverse input order
comes_before_ties_reversed(keys, i, j) ==
    LexLess(keys[i], keys[j]) \/ (keys[i] = keys[j] /\ j < i)

\* whether the row at i comes before the row at j in a sort on several
\* columns, which pandas does with a stable lexsort
comes_before(keys, i, j) ==
    LexLess(keys[i], keys[j]) \/ (keys[i] = keys[j] /\ i < j)

\* df.sort_values(by=[...]) on the keys given row by row
sort_values(df, keys) ==
    LET pos(i) == 1 + Cardinality({j \in 1..Len(df) : j # i /\ comes_before(keys, j, i)})
    IN  [k \in 1..Len(df) |-> df[CHOOSE i \in 1..Len(df) : pos(i) = k]]

\* build_priority(shortage_df): the queue
build_priority(df) ==
    IF df = <<>> THEN <<>>
    ELSE LET ranked == with_ranks(df)
         IN  sort_values(ranked, [i \in 1..Len(ranked) |-> sort_key(ranked[i])])

---------------------------------------------------------------------------
(* main *)

\* display_df: the rows of the queue with capped containers > 0, cut to
\* the four displayed columns
display_rows(queue) ==
    LET keep == {i \in 1..Len(queue) : queue[i].Contenedores_a_producir_limitado > 0}
        kept == SelectIdx(queue, keep, 1)
    IN  [i \in 1..Len(kept) |->
            [Part_No     |-> kept[i].Part_No,
             Descripcion |-> kept[i].Descripcion,
             Embarque    |-> kept[i].Fecha_Embarque,
             Contenedores_a_Producir |-> kept[i].Contenedores_a_producir_limitado]]

\* lines 668-670: the three loads
LoadData ==
    /\ pc = "load"
    /\ LET r == load_ref(ref_file)
           p == load_prp(prp_file)
       IN  /\ ref_df' = r.df
           /\ parts_ref' = r.parts_ref
           /\ prp_df' = p.df
           /\ date_cols' = p.date_cols
    /\ pc' = "process_data"
    /\ UNCHANGED <<msg, ref_file, prp_file, base_df, demand_df, shortages_df,
                   ledger, priority_df, display_df>>
    /\ UNCHANGED <<cache_vars, store_vars>>

\* ProcessData with the warning of an empty plan where the critical data
\* are missing
ProcessData_warns_nothing_to_produce ==
    /\ pc = "process_data"
    /\ IF ref_df # <<>> /\ prp_df # <<>> /\ date_cols # <<>>
       THEN LET r == process_data(ref_df, prp_df, date_cols, parts_ref)
            IN  /\ base_df' = r.base
                /\ demand_df' = r.demand
                /\ pc' = "compute_shortages"
                /\ msg' = msg
       ELSE /\ msg' = "No se encontraron requerimientos para producir."
            /\ pc' = "done"
            /\ UNCHANGED <<base_df, demand_df>>
    /\ UNCHANGED <<ref_file, prp_file, ref_df, parts_ref, prp_df, date_cols,
                   shortages_df, ledger, priority_df, display_df>>
    /\ UNCHANGED <<cache_vars, store_vars>>

\* lines 693-694 and 852-853
ProcessData ==
    /\ pc = "process_data"
    /\ IF ref_df # <<>> /\ prp_df # <<>> /\ date_cols # <<>>
       THEN LET r == process_data(ref_df, prp_df, date_cols, parts_ref)
            IN  /\ base_df' = r.base
                /\ demand_df' = r.demand
                /\ pc' = "compute_shortages"
                /\ msg' = msg
       ELSE /\ msg' = "Faltan datos criticos para el procesamiento."
            /\ pc' = "done"
            /\ UNCHANGED <<base_df, demand_df>>
    /\ UNCHANGED <<ref_file, prp_file, ref_df, parts_ref, prp_df, date_cols,
                   shortages_df, ledger, priority_df, display_df>>
    /\ UNCHANGED <<cache_vars, store_vars>>

\* lines 696-707 and 850-851
ComputeShortages ==
    /\ pc = "compute_shortages"
    /\ IF base_df # <<>> /\ demand_df # <<>>
       THEN \E sorted \in sort_by_Fecha(demand_df) :
                LET r == compute_shortages(base_df, sorted)
                IN  /\ shortages_df' = r.events
                    /\ ledger' = r.ledger
                    /\ pc' = "build_priority"
                    /\ msg' = msg
       ELSE /\ msg' = "No se pudieron procesar los datos correctamente."
            /\ pc' = "done"
            /\ UNCHANGED <<shortages_df, ledger>>
    /\ UNCHANGED <<ref_file, prp_file, ref_df, parts_ref, prp_df, date_cols,
                   base_df, demand_df, priority_df, display_df>>
    /\ UNCHANGED <<cache_vars, store_vars>>

\* lines 709-711 and 848-849; build_priority adds its two columns to the
\* frame it is given
BuildPriority ==
    /\ pc = "build_priority"
    /\ IF shortages_df # <<>>
       THEN /\ priority_df' = build_priority(shortages_df)
            /\ shortages_df' = with_ranks(shortages_df)
            /\ pc' = "present"
            /\ msg' = msg
       ELSE /\ msg' = "No se encontraron requerimientos para producir."
            /\ pc' = "done"
            /\ UNCHANGED <<shortages_df, priority_df>>
    /\ UNCHANGED <<ref_file, prp_file, ref_df, parts_ref, prp_df, date_cols,
                   base_df, demand_df, ledger, display_df>>
    /\ UNCHANGED <<cache_vars, store_vars>>

\* lines 716-838: the displayed and exported rows
Present ==
    /\ pc = "present"
    /\ display_df' = display_rows(priority_df)
    /\ msg' = IF display_rows(priority_df) # <<>> THEN "Secuencia de Produccion"
              ELSE "No hay contenedores para producir."
    /\ pc' = "done"
    /\ UNCHANGED <<ref_file, prp_file, ref_df, parts_ref, prp_df, date_cols,
                   base_df, demand_df, shortages_df, ledger, priority_df>>
    /\ UNCHANGED <<cache_vars, store_vars>>

Next == LoadData \/ ProcessData \/ ComputeShortages \/ BuildPriority \/ Present

---------------------------------------------------------------------------
(* The caches of the load stages: st.cache_data keeps, per function and    *)
(* arguments, the value a call returned and the time it was stored; an     *)
(* entry with a ttl is dropped once ttl seconds have passed, an entry      *)
(* without ttl is kept until the caches are cleared                        *)

\* the ttl of read_csv_url, load_ref, load_prp and load_live, in seconds
TTL == 1800

\* the load stages: the reference file, the PRP url, the live inventory url
Stages == {"ref", "prp", "live"}

\* no entry
Absent == <<>>

Entry(t, v) == <<[stored |-> t, value |-> v]>>

\* @st.cache_data(ttl=1800) on read_csv_url, @st.cache_data() on
\* read_local_ref: NaN stands for no ttl
reader_ttl(stage) == IF stage = "ref" THEN NaN ELSE Num(TTL)

\* @st.cache_data(ttl=1800) on load_ref, load_prp and load_live
loader_ttl(stage) == Num(TTL)

\* whether a call at time t is answered from the entry
is_fresh(entry, ttl, t) ==
    entry # Absent /\ (isna(ttl) \/ t - entry[1].stored < Val(ttl))

\* a call of read_local_ref(path) or read_csv_url(url) at time t: the value
\* returned (the content's version and the time it was read) and the entry
\* the reader's cache holds afterwards
read_through(c, src, stage, t) ==
    IF is_fresh(c.reader[stage], reader_ttl(stage), t)
    THEN [value |-> c.reader[stage][1].value, reader |-> c.reader[stage]]
    ELSE LET v == [version |-> src[stage], fetched |-> t]
         IN  [value |-> v, reader |-> Entry(t, v)]

\* a call of load_ref(), load_prp() or load_live() at time t
load_through(c, src, stage, t) ==
    IF is_fresh(c.loader[stage], loader_ttl(stage), t)
    THEN [value  |-> c.loader[stage][1].value,
          loader |-> c.loader[stage],
          reader |-> c.reader[stage]]
    ELSE LET r == read_through(c, src, stage, t)
         IN  [value  |-> r.value,
              loader |-> Entry(t, r.value),
              reader |-> r.reader]

\* the caches before any call, and after st.cache_data.clear()
EmptyCache == [reader |-> [s \in Stages |-> Absent], loader |-> [s \in Stages |-> Absent]]

\* lines 668-670 run on the caches c at the time now
loads(c) ==
    /\ cache' = [reader |-> [s \in Stages |-> load_through(c, source, s, now).reader],
                 loader |-> [s \in Stages |-> load_through(c, source, s, now).loader]]
    /\ last_load' = [s \in Stages |->
                        <<[value |-> load_through(c, source, s, now).value,
                           at    |-> now]>>]

\* a run of main: the three loads
RunLoads ==
    /\ loads(cache)
    /\ UNCHANGED <<now, source, run_vars, store_vars>>

\* lines 663-665 and 688-690: the caches are cleared and main runs again
Refresh ==
    /\ cache # EmptyCache
    /\ loads(EmptyCache)
    /\ UNCHANGED <<now, source, run_vars, store_vars>>

---------------------------------------------------------------------------
(* Inputs *)

\* the most date columns of a PRP file
MaxCols == 3

\* the calendar days a date column may name
Days == {1, 2}

\* the spellings of one day ("1/<day>/2025" and "01/0<day>/2025")
Spellings == 2

P1 == <<"P", "1">>

P2 == <<"P", "2">>

ACME == <<"A", "C", "M", "E">>

FordMotorCo == <<"F", "o", "r", "d", " ", "M", "o", "t", "o", "r", " ", "C", "o">>

CustomerReleasesText ==
    <<"C", "u", "s", "t", "o", "m", "e", "r", " ",
      "R", "e", "l", "e", "a", "s", "e", "s">>

\* <<stdpack_min, stdpack_max>> of a reference row
PackPairs == {<<Num(0), NaN>>, <<Num(2), Num(3)>>}

Customers == {ACME, FordMotorCo}

OnHand == {0, 3}

Qty == {0, 2}

RefRow(part, packs, customer) ==
    [partno |-> part, stdpack_min |-> packs[1], stdpack_max |-> packs[2],
     customer |-> customer, desc |-> part, rate |-> 100]

PrpRow(part, onhand, qty) ==
    [demand_type |-> CustomerReleasesText, Part_No |-> part,
     Inv_FG |-> Num(onhand), Customer |-> None,
     qty |-> [c \in 1..Len(qty) |-> Num(qty[c])]]

\* the day sequences of k date columns: the headers of a file are distinct,
\* so a day is named at most once per spelling
DaySeqs(k) ==
    {d \in [1..k -> Days] :
        \A x \in Days : Cardinality({c \in 1..k : d[c] = x}) <= Spellings}

\* the headers of a day sequence: the second column of a day is the padded
\* spelling
Headers(d) ==
    [c \in 1..Len(d) |-> [day |-> d[c], pad |-> \E b \in 1..(c - 1) : d[b] = d[c]]]

RefFiles ==
    {<<RefRow(P1, k1, c1), RefRow(P2, k2, c2)>> :
        k1 \in PackPairs, c1 \in Customers, k2 \in PackPairs, c2 \in Customers}

\* P1 takes every demand pattern, P2 the same demand in every column
PrpFilesOf(k) ==
    {[headers |-> Headers(d),
      rows    |-> <<PrpRow(P1, h1, q1), PrpRow(P2, h2, [c \in 1..k |-> q2])>>] :
        d \in DaySeqs(k), h1 \in OnHand, h2 \in OnHand,
        q1 \in [1..k -> Qty], q2 \in Qty}

PrpFiles == UNION {PrpFilesOf(k) : k \in 1..MaxCols}

Start ==
    /\ pc = "load"
    /\ msg = ""
    /\ ref_df = <<>>
    /\ parts_ref = <<>>
    /\ prp_df = <<>>
    /\ date_cols = <<>>
    /\ base_df = <<>>
    /\ demand_df = <<>>
    /\ shortages_df = <<>>
    /\ ledger = <<>>
    /\ priority_df = <<>>
    /\ display_df = <<>>
    /\ now = 0
    /\ source = [s \in Stages |-> 0]
    /\ cache = EmptyCache
    /\ last_load = [s \in Stages |-> Absent]
    /\ data = <<>>
    /\ reference_data = <<>>
    /\ saved = FALSE
    /\ returned = [op |-> "__init__", part_number |-> <<>>, value |-> <<>>]

Init ==
    /\ ref_file \in RefFiles
    /\ prp_file \in PrpFiles
    /\ Start

Spec == Init /\ [][Next]_vars

---------------------------------------------------------------------------
(* Inputs of the projector scenarios: one part, the quantities of          *)
(* Scenario A, one date column per day                                     *)

ScenarioPacks == {<<Num(0), NaN>>, <<Num(40), NaN>>, <<Num(40), Num(50)>>}

ScenarioOnHand == {-20, 0, 20, 120}

ScenarioQty == {0, 40, 80, 100}

\* the days 1..k in file order: ascending, descending, or rotated by one
ColumnOrders(k) ==
    {[c \in 1..k |-> c], [c \in 1..k |-> k + 1 - c], [c \in 1..k |-> (c % k) + 1]}

ScenarioRefFiles == {<<RefRow(P1, k1, FordMotorCo)>> : k1 \in ScenarioPacks}

\* the Inv FG cell of the part: a quantity, or a cell that is not a number
ScenarioStock == {NaN} \cup {Num(h) : h \in ScenarioOnHand}

ScenarioPrpFiles ==
    UNION {{[headers |-> Headers(d),
             rows    |-> <<[PrpRow(P1, 0, q1) EXCEPT !.Inv_FG = h1]>>] :
               d \in ColumnOrders(k), h1 \in ScenarioStock,
               q1 \in [1..k -> ScenarioQty]} : k \in 1..MaxCols}

InitA ==
    /\ ref_file \in ScenarioRefFiles
    /\ prp_file \in ScenarioPrpFiles
    /\ Start

SpecA == InitA /\ [][Next]_vars

---------------------------------------------------------------------------
(* Properties of compute_shortages *)

\* compute_shortages has run
Computed == pc \in {"build_priority", "present", "done"}

Events == 1..Len(shortages_df)

ValidPack(pack) == ~isna(pack) /\ Val(pack) > 0

\* the on-hand inventory of every baseline row of the part is a number >= 0
OnHandNonNegative(part) ==
    \A b \in 1..Len(base_df) :
        base_df[b].Part_No = part =>
            ~isna(base_df[b].InvFG_pzs) /\ Val(base_df[b].InvFG_pzs) >= 0

\* every demand quantity of the part is >= 0
DemandsNonNegative(part) ==
    \A d \in 1..Len(demand_df) :
        demand_df[d].Part_No = part => demand_df[d].Demanda_pzs >= 0

\* C1: for every part whose on-hand inventory is >= 0 and whose demand
\* quantities are all >= 0, the running balance after each processed demand
\* entry is a number that is never negative.
C1_BalanceNeverNegative ==
    \A k \in 1..Len(ledger) :
        OnHandNonNegative(ledger[k].Part_No) /\ DemandsNonNegative(ledger[k].Part_No)
            => ~isna(ledger[k].after) /\ Val(ledger[k].after) >= 0

\* a part with on-hand >= 0 had a covered entry that left a positive
\* remainder and then an entry whose demand exceeded the balance
C1_Witness ==
    \E j, k \in 1..Len(ledger) :
        /\ j < k
        /\ ledger[j].Part_No = ledger[k].Part_No
        /\ OnHandNonNegative(ledger[k].Part_No)
        /\ Val(ledger[j].after) > 0
        /\ Val(ledger[j].after) < Val(ledger[j].before)
        /\ ledger[k].Demanda_pzs > Val(ledger[k].before)
        /\ ledger[k].after = Num(0)

\* C2: per part at most one event is flagged Es_primer_faltante, and the
\* flagged event is the one with the earliest shipment date among the
\* part's events (no event of the part is dated before it).
C2_OneFirstShortagePerPart ==
    \A i \in Events :
        shortages_df[i].Es_primer_faltante =>
            \A j \in Events :
                shortages_df[j].Part_No = shortages_df[i].Part_No /\ j # i =>
                    /\ ~shortages_df[j].Es_primer_faltante
                    /\ shortages_df[i].Fecha_Embarque <= shortages_df[j].Fecha_Embarque

\* two parts have events, and one of them has a flagged event and a later
\* dated one that is not flagged
C2_Witness ==
    /\ \E i, j \in Events : shortages_df[i].Part_No # shortages_df[j].Part_No
    /\ \E i, j \in Events :
          /\ shortages_df[i].Part_No = shortages_df[j].Part_No
          /\ shortages_df[i].Es_primer_faltante
          /\ ~shortages_df[j].Es_primer_faltante
          /\ shortages_df[i].Fecha_Embarque < shortages_df[j].Fecha_Embarque

\* C3: for every event of a part with a valid pack, Contenedores_a_producir
\* is ceil(Faltante_pzs / pack): containers * pack >= shortage and
\* (containers - 1) * pack < shortage.
C3_ContainersAreCeiling ==
    \A i \in Events :
        LET e == shortages_df[i]
        IN  ValidPack(e.pack) =>
                /\ ~isna(e.Contenedores_a_producir)
                /\ Val(e.Contenedores_a_producir) * Val(e.pack) >= e.Faltante_pzs
                /\ (Val(e.Contenedores_a_producir) - 1) * Val(e.pack) < e.Faltante_pzs

\* one event's shortage is not a multiple of the pack (rounded up to 2
\* containers), another's is an exact multiple
C3_Witness ==
    /\ \E i \in Events :
          /\ ValidPack(shortages_df[i].pack)
          /\ shortages_df[i].Faltante_pzs % Val(shortages_df[i].pack) # 0
          /\ shortages_df[i].Contenedores_a_producir = Num(2)
    /\ \E i \in Events :
          /\ ValidPack(shortages_df[i].pack)
          /\ shortages_df[i].Faltante_pzs % Val(shortages_df[i].pack) = 0

\* Scenario A: part P1, pack 50, on-hand 120, demands 100, 80, 40 on the
\* days 1, 2, 3
ScenarioA ==
    /\ ref_file = <<RefRow(P1, <<Num(40), Num(50)>>, FordMotorCo)>>
    /\ prp_file = [headers |-> Headers(<<1, 2, 3>>),
                   rows    |-> <<PrpRow(P1, 120, <<100, 80, 40>>)>>]

\* what Scenario A states of an event
EventView(e) ==
    [part |-> e.Part_No, pack |-> e.pack, date |-> e.Fecha_Embarque,
     inventoryBeforeEvent |-> e.Inventario_Actual,
     shortagePieces |-> e.Faltante_pzs,
     containersRequired |-> e.Contenedores_a_producir,
     isFirst |-> e.Es_primer_faltante]

\* C4: on Scenario A compute_shortages emits exactly two events: day 2 with
\* inventory 20, shortage 60, 2 containers, first; day 3 with inventory 0,
\* shortage 40, 1 container, not first; and none for day 1.
C4_ScenarioA ==
    ScenarioA /\ Computed =>
        [i \in Events |-> EventView(shortages_df[i])] =
            <<[part |-> P1, pack |-> Num(50), date |-> 2,
               inventoryBeforeEvent |-> Num(20), shortagePieces |-> 60,
               containersRequired |-> Num(2), isFirst |-> TRUE],
              [part |-> P1, pack |-> Num(50), date |-> 3,
               inventoryBeforeEvent |-> Num(0), shortagePieces |-> 40,
               containersRequired |-> Num(1), isFirst |-> FALSE]>>

\* Scenario A was run to the end
C4_Witness == ScenarioA /\ pc = "done" /\ Len(ledger) = 3 /\ Len(shortages_df) = 2

\* C5: an event of a part without a valid pack carries a NaN
\* Contenedores_a_producir (not 0, not any number), and an event of a part
\* with a valid pack carries a number.
C5_ContainersNullIffInvalidPack ==
    \A i \in Events :
        LET e == shortages_df[i]
        IN  /\ ~ValidPack(e.pack) =>
                  isna(e.Contenedores_a_producir) /\ e.Contenedores_a_producir # Num(0)
            /\ ValidPack(e.pack) =>
                  ~isna(e.Contenedores_a_producir) /\ Val(e.Contenedores_a_producir) > 0

\* a part whose pack columns are 0 and empty (Scenario B) has a shortage
\* event, and so has a part with a valid pack
C5_Witness ==
    /\ \E r \in 1..Len(ref_df) :
          /\ ref_df[r].stdpack_min = Num(0)
          /\ isna(ref_df[r].stdpack_max)
          /\ ref_df[r].pack_faltante
          /\ \E i \in Events :
                /\ shortages_df[i].Part_No = ref_df[r].partno
                /\ isna(shortages_df[i].pack)
    /\ \E i \in Events : ValidPack(shortages_df[i].pack)

---------------------------------------------------------------------------
(* Properties of build_priority and of the displayed rows *)

\* build_priority has run
Prioritized == pc \in {"present", "done"} /\ priority_df # <<>>

Queue == 1..Len(priority_df)

\* the number of distinct parts that appear in the event frame before the
\* first event of the part
FirstAppearanceRank(part) ==
    LET first == CHOOSE i \in Events :
                    /\ shortages_df[i].Part_No = part
                    /\ \A j \in Events : shortages_df[j].Part_No = part => i <= j
    IN  Cardinality({shortages_df[j].Part_No : j \in 1..(first - 1)})

\* x is not after y by (isFirst descending, part rank, customer rank, date)
InQueueOrder(x, y) ==
    LET px == FirstAppearanceRank(x.Part_No)
        py == FirstAppearanceRank(y.Part_No)
        cx == customer_priority(x.Cliente)
        cy == customer_priority(y.Cliente)
    IN  \/ x.Es_primer_faltante /\ ~y.Es_primer_faltante
        \/ /\ x.Es_primer_faltante = y.Es_primer_faltante
           /\ \/ px < py
              \/ px = py /\ cx < cy
              \/ px = py /\ cx = cy /\ x.Fecha_Embarque <= y.Fecha_Embarque

\* C6: a part without a valid pack that has a shortage event is retained in
\* the rows main displays and exports, so that it is visible to the operator.
C6_InvalidPackVisible ==
    pc = "done" /\ display_df # <<>> =>
        \A i \in Queue :
            ~ValidPack(priority_df[i].pack) =>
                \E d \in 1..Len(display_df) :
                    /\ display_df[d].Part_No = priority_df[i].Part_No
                    /\ display_df[d].Embarque = priority_df[i].Fecha_Embarque

\* C7: the queue is sorted by (Es_primer_faltante descending, part rank,
\* customer rank, shipment date), the part rank being the position of the
\* part in order of first appearance in the event frame; no event that is
\* not a first shortage precedes one that is.
C7_QueueSortedByKeys ==
    Prioritized =>
        /\ \A a \in Queue :
              /\ priority_df[a].part_priority =
                     FirstAppearanceRank(priority_df[a].Part_No)
              /\ priority_df[a].cliente_priority =
                     customer_priority(priority_df[a].Cliente)
        /\ \A a, b \in Queue :
              a < b =>
                  /\ InQueueOrder(priority_df[a], priority_df[b])
                  /\ ~(~priority_df[a].Es_primer_faltante
                         /\ priority_df[b].Es_primer_faltante)

\* the queue holds first and later events of two parts, the part ranked
\* first is not the first in text order and has the worse customer rank, and
\* two later events of one part are in date order
C7_Witness ==
    /\ Prioritized
    /\ \E a, b \in Queue :
          /\ priority_df[a].part_priority < priority_df[b].part_priority
          /\ priority_df[a].cliente_priority > priority_df[b].cliente_priority
          /\ StrLess(priority_df[b].Part_No, priority_df[a].Part_No)
          /\ priority_df[a].Es_primer_faltante
          /\ priority_df[b].Es_primer_faltante
    /\ \E a, b \in Queue :
          /\ a < b
          /\ priority_df[a].Part_No = priority_df[b].Part_No
          /\ ~priority_df[a].Es_primer_faltante
          /\ priority_df[a].Fecha_Embarque < priority_df[b].Fecha_Embarque

C9_KeysDistinct ==
    Prioritized =>
        \A a, b \in Queue :
            a # b => sort_key(priority_df[a]) # sort_key(priority_df[b])

---------------------------------------------------------------------------
(* Inputs of the load and join scenarios: one date column at most; either  *)
(* a rich reference row with a plain PRP line, or a plain reference with   *)
(* rich PRP lines (demand types, part spellings, missing on-hand)          *)

\* the most lines of a PRP file in the load and join scenarios
MaxLines == 2

FordMotorCoUpper == <<"F", "O", "R", "D", " ", "M", "O", "T", "O", "R", " ", "C", "O">>

MagnaExteriors ==
    <<"M", "A", "G", "N", "A", " ", "E", "X", "T", "E", "R", "I", "O", "R", "S">>

MagnaFordJv == <<"m", "a", "g", "n", "a", " ", "f", "o", "r", "d", " ", "j", "v">>

PaddedFord == <<" ", " ", "f", "o", "r", "d", " ">>

ForD == <<"F", "O", "R", " ", "D">>

Blank == <<" ">>

CustomerNames ==
    {None, FordMotorCoUpper, FordMotorCo, MagnaExteriors, MagnaFordJv,
     PaddedFord, ForD, ACME, Blank}

\* <<stdpack_min, stdpack_max>>: every combination of missing, zero,
\* negative and positive values that decides the pack
RefPacks ==
    {<<NaN, NaN>>, <<Num(0), NaN>>, <<Num(2), NaN>>, <<NaN, Num(3)>>,
     <<Num(2), Num(3)>>, <<Num(2), Num(0)>>, <<Num(-1), Num(-2)>>,
     <<Num(0), Num(3)>>, <<Num(3), Num(2)>>}

ScheduledOrders ==
    <<"S", "c", "h", "e", "d", "u", "l", "e", "d", " ", "O", "r", "d", "e", "r", "s">>

PaddedCustomerReleases ==
    <<" ", "C", "u", "s", "t", "o", "m", "e", "r", " ",
      "R", "e", "l", "e", "a", "s", "e", "s", " ">>

DoubleSpaced ==
    <<"C", "u", "s", "t", "o", "m", "e", "r", " ", " ",
      "R", "e", "l", "e", "a", "s", "e", "s">>

DemandTypes ==
    {CustomerReleasesText, PaddedCustomerReleases, ScheduledOrders, DoubleSpaced}

LowerP1 == <<"p", "1">>

PaddedP1 == <<" ", "P", "1", " ">>

P3 == <<"P", "3">>

PartSpellings == {P1, LowerP1, PaddedP1, P3}

\* a PRP line: demand type, part number, primary customer, Inv FG, and the
\* quantity 2 in each of the k date columns
PrpLine(type, part, customer, onhand, k) ==
    [demand_type |-> type, Part_No |-> part, Inv_FG |-> onhand,
     Customer |-> customer, qty |-> [c \in 1..k |-> Num(2)]]

\* the first line of a file takes every demand type, spelling and on-hand
FirstLines(k) ==
    {PrpLine(t, p, None, h, k) :
        t \in DemandTypes, p \in PartSpellings, h \in {NaN, Num(0), Num(3)}}

LaterLines(k) ==
    {PrpLine(t, p, None, Num(5), k) :
        t \in {CustomerReleasesText, ScheduledOrders}, p \in {P1, LowerP1}}

LineSeqs(k) ==
    {<<>>} \cup
    {<<f>> \o rest :
        f \in FirstLines(k),
        rest \in UNION {[1..n -> LaterLines(k)] : n \in 0..(MaxLines - 1)}}

\* no date column, or the one of day 1
JoinPrpFiles ==
    {[headers |-> <<>>, rows |-> r] : r \in LineSeqs(0)}
    \cup {[headers |-> Headers(<<1>>), rows |-> r] : r \in LineSeqs(1)}

JoinRefFiles ==
    {<<>>,
     <<RefRow(P1, <<Num(2), Num(3)>>, ACME)>>,
     <<RefRow(P1, <<Num(2), Num(3)>>, ACME), RefRow(P2, <<Num(0), NaN>>, FordMotorCo)>>}

RichRefFiles == {<<RefRow(P1, k, c)>> : k \in RefPacks, c \in CustomerNames}

PlainPrpFiles ==
    {[headers |-> Headers(<<1>>),
      rows    |-> <<PrpLine(CustomerReleasesText, P1, c, Num(0), 1)>>] :
        c \in {None, MagnaExteriors}}

InitL ==
    /\ \/ ref_file \in RichRefFiles /\ prp_file \in PlainPrpFiles
       \/ ref_file \in JoinRefFiles /\ prp_file \in JoinPrpFiles
    /\ Start

SpecL == InitL /\ [][Next]_vars

---------------------------------------------------------------------------
(* Properties of customer_priority *)

HasFord(c) == Contains(upper(c), FORD)

HasMagna(c) == Contains(upper(c), MAGNA)

\* C11: the customer rank of every queue row is 0 when the customer's name
\* contains FORD in any case (also when it contains MAGNA too), 1 when it
\* contains MAGNA and not FORD, 2 for any other name, and 999 when the
\* customer is missing.
C11_CustomerRanks ==
    Prioritized =>
        \A i \in Queue :
            LET c == priority_df[i].Cliente
                r == priority_df[i].cliente_priority
            IN  /\ c = None => r = 999
                /\ c # None /\ HasFord(c) => r = 0
                /\ c # None /\ ~HasFord(c) /\ HasMagna(c) => r = 1
                /\ c # None /\ ~HasFord(c) /\ ~HasMagna(c) => r = 2

\* a row of the queue whose customer is written in lower case and names
\* MAGNA ahead of FORD is ranked 0
C11_Witness ==
    /\ Prioritized
    /\ \E i \in Queue :
          /\ priority_df[i].Cliente = MagnaFordJv
          /\ priority_df[i].cliente_priority = 0

---------------------------------------------------------------------------
(* Properties of the stages on empty input *)

\* the loads have run
Loaded == pc # "load"

\* C12: every stage returns an empty result on empty input: load_ref and
\* load_prp on an empty file, process_data on an empty reference frame or an
\* empty PRP frame, compute_shortages on an empty baseline or an empty
\* demand collection, build_priority on an empty event frame.
C12_EmptyInEmptyOut ==
    Loaded =>
        /\ ref_file = <<>> => ref_df = <<>> /\ parts_ref = <<>>
        /\ prp_file.rows = <<>> => prp_df = <<>> /\ date_cols = <<>>
        /\ ref_df = <<>> =>
              process_data(ref_df, prp_df, date_cols, parts_ref)
                  = [base |-> <<>>, demand |-> <<>>]
        /\ process_data(ref_df, <<>>, date_cols, parts_ref)
              = [base |-> <<>>, demand |-> <<>>]
        /\ \A sorted \in sort_by_Fecha(demand_df) :
              compute_shortages(<<>>, sorted).events = <<>>
        /\ compute_shortages(base_df, <<>>).events = <<>>
        /\ shortages_df = <<>> => build_priority(shortages_df) = <<>>

\* main has ended on an empty reference table while the PRP file gave
\* lines and a date column
C12_Witness ==
    /\ pc = "done"
    /\ ref_file = <<>>
    /\ ref_df = <<>>
    /\ prp_df # <<>>
    /\ date_cols # <<>>
    /\ shortages_df = <<>>

---------------------------------------------------------------------------
(* Properties of the messages of main *)

\* the errors of main on missing input and on a failed aggregation
NoDataMessages ==
    {"Faltan datos criticos para el procesamiento.",
     "No se pudieron procesar los datos correctamente."}

\* the warnings of main after a computation that gave nothing to produce
NothingToProduceMessages ==
    {"No se encontraron requerimientos para producir.",
     "No hay contenedores para producir."}

\* C13: when main has ended, an empty reference, demand or date-column
\* input, or an aggregation that returned nothing, is reported with a
\* no-data error, never with a nothing-to-produce warning; that warning is
\* only shown when the inputs were loaded and aggregated.
C13_NoDataIsNotNoShortages ==
    pc = "done" =>
        /\ \/ ref_file = <<>> \/ prp_file.rows = <<>> \/ prp_file.headers = <<>>
           \/ ref_df = <<>> \/ prp_df = <<>> \/ date_cols = <<>>
           \/ base_df = <<>> \/ demand_df = <<>>
           => msg \in NoDataMessages
        /\ msg \in NothingToProduceMessages =>
              /\ ref_df # <<>> /\ prp_df # <<>> /\ date_cols # <<>>
              /\ base_df # <<>> /\ demand_df # <<>>
        /\ NoDataMessages \cap NothingToProduceMessages = {}

\* main has ended on loaded inputs whose aggregation returned nothing (no
\* PRP part is a reference part)
C13_Witness ==
    /\ pc = "done"
    /\ ref_df # <<>> /\ prp_df # <<>> /\ date_cols # <<>>
    /\ base_df = <<>>
    /\ msg = "No se pudieron procesar los datos correctamente."

---------------------------------------------------------------------------
(* The load stages over time: the clock advances, the content behind a     *)
(* stage changes, main runs, the operator refreshes                        *)

\* the freshness windows the clock runs through
MaxWindows == 2

\* the changes of one stage's content
MaxVersion == 1

\* the instants just before, at and just after each multiple of the ttl
Instants ==
    {t \in {k * TTL + d : k \in 0..MaxWindows, d \in {-1, 0, 1}} : t >= 0}

Tick ==
    /\ \E t \in Instants : t > now /\ now' = t
    /\ UNCHANGED <<source, cache, last_load, run_vars, store_vars>>

\* the reference file or the sheet behind a url is edited
Change ==
    /\ \E s \in Stages :
          /\ source[s] < MaxVersion
          /\ source' = [source EXCEPT ![s] = source[s] + 1]
    /\ UNCHANGED <<now, cache, last_load, run_vars, store_vars>>

NextT == Tick \/ Change \/ RunLoads \/ Refresh

InitT ==
    /\ ref_file = <<>>
    /\ prp_file = [headers |-> <<>>, rows |-> <<>>]
    /\ Start

SpecT == InitT /\ [][NextT]_vars

---------------------------------------------------------------------------
(* Properties of the caches *)

\* what the latest call of the stage returned was read less than ttl
\* seconds before the call
ReadWithinWindow(stage) ==
    last_load[stage] # Absent =>
        last_load[stage][1].at - last_load[stage][1].value.fetched < TTL

\* C14: for each load stage, what a call returns was read from the source
\* within the freshness window of 1800 s: a call made once the window has
\* elapsed since the read returns a new read, not the stored result.
C14_ReusedOnlyWithinWindow == \A s \in Stages : ReadWithinWindow(s)

\* the two url stages keep to the window
UrlStagesWithinWindow == ReadWithinWindow("prp") /\ ReadWithinWindow("live")

---------------------------------------------------------------------------
(* Properties of the per-part pass of compute_shortages *)

\* the demand of the ledger entry exceeds the balance before it (false of a
\* balance that is not a number, as the comparison is in Python)
Uncovered(entry) ==
    ~isna(entry.before) /\ entry.Demanda_pzs > Val(entry.before)

\* the ledger entries whose demand exceeds the balance, in ledger order
UncoveredEntries ==
    SelectIdx(ledger, {k \in 1..Len(ledger) : Uncovered(ledger[k])}, 1)

\* C15: the events are, in order, the demand entries whose demand exceeds
\* the balance at the entry, one event per such entry and none for a
\* covered entry; each event records the balance before the entry as
\* Inventario_Actual and demand - balance (> 0) as Faltante_pzs.
C15_EventIffDemandExceedsBalance ==
    Computed =>
        /\ Len(shortages_df) = Len(UncoveredEntries)
        /\ \A i \in Events :
              LET e == shortages_df[i]
                  u == UncoveredEntries[i]
              IN  /\ e.Part_No = u.Part_No
                  /\ e.Fecha_Embarque = u.Fecha
                  /\ e.Demanda_pzs = u.Demanda_pzs
                  /\ e.Inventario_Actual = u.before
                  /\ e.Faltante_pzs = u.Demanda_pzs - Val(u.before)
                  /\ e.Faltante_pzs > 0

\* a run with a covered entry of positive demand, an entry partly covered
\* by a positive balance, and an entry whose demand equals the balance
C15_Witness ==
    /\ Computed
    /\ \E j, k, m \in 1..Len(ledger) :
          /\ ~isna(ledger[j].before) /\ ~isna(ledger[k].before) /\ ~isna(ledger[m].before)
          /\ ledger[j].Demanda_pzs > 0
          /\ ledger[j].Demanda_pzs < Val(ledger[j].before)
          /\ ledger[k].Demanda_pzs = Val(ledger[k].before)
          /\ Val(ledger[m].before) > 0
          /\ ledger[m].Demanda_pzs > Val(ledger[m].before)
    /\ Len(shortages_df) = 1

\* the on-hand inventory of the part in the baseline
OnHandOf(part) ==
    base_df[CHOOSE b \in 1..Len(base_df) : base_df[b].Part_No = part].InvFG_pzs

\* C16: the balance before a part's first entry is the part's on-hand
\* inventory, the balance before each later entry is the balance after the
\* entry ahead of it, and the balance after an entry is 0 when the demand
\* exceeded the balance and the balance minus the demand when it did not.
C16_BalanceUpdate ==
    Computed =>
        \A k \in 1..Len(ledger) :
            LET x     == ledger[k]
                first == k = 1 \/ ledger[k - 1].Part_No # x.Part_No
            IN  /\ first => x.before = OnHandOf(x.Part_No)
                /\ ~first => x.before = ledger[k - 1].after
                /\ Uncovered(x) => x.after = Num(0)
                /\ ~Uncovered(x) /\ ~isna(x.before) =>
                      x.after = Num(Val(x.before) - x.Demanda_pzs)
                /\ isna(x.before) => isna(x.after)

\* a part's pass went from a positive on-hand through a covered entry to a
\* shortage and on to an entry met with a balance of 0
C16_Witness ==
    /\ Computed
    /\ Len(ledger) = 3
    /\ ~isna(ledger[1].before)
    /\ Val(ledger[1].before) > 0
    /\ ledger[1].Demanda_pzs > 0
    /\ ~Uncovered(ledger[1])
    /\ Uncovered(ledger[2])
    /\ Val(ledger[2].before) > 0
    /\ ledger[3].before = Num(0)
    /\ ledger[3].Demanda_pzs > 0

---------------------------------------------------------------------------
(* Inputs of the capacity scenarios: one part, packs below and above the   *)
(* 22.5 pieces of a shift at rate 100, two rates                           *)

CapacityPacks ==
    {<<Num(0), NaN>>, <<Num(10), NaN>>, <<Num(22), NaN>>, <<Num(22), Num(23)>>,
     <<Num(40), NaN>>}

Rates == {100, 200}

CapacityQty == {0, 15, 40, 100}

CapacityRefFiles ==
    {<<[RefRow(P1, k1, FordMotorCo) EXCEPT !.rate = r]>> :
        k1 \in CapacityPacks, r \in Rates}

CapacityPrpFiles ==
    UNION {{[headers |-> Headers([c \in 1..k |-> c]),
             rows    |-> <<PrpRow(P1, 0, q1)>>] :
               q1 \in [1..k -> CapacityQty]} : k \in 1..MaxCols}

InitK ==
    /\ ref_file \in CapacityRefFiles
    /\ prp_file \in CapacityPrpFiles
    /\ Start

SpecK == InitK /\ [][Next]_vars

---------------------------------------------------------------------------
(* Properties of the shift capacity *)

---------------------------------------------------------------------------
(* Properties of load_ref and load_prp *)

\* C18: in load_ref's frame the pack of a row is stdpack_max when that is a
\* number above 0, else stdpack_min when that is a number above 0, else
\* missing; pack_faltante is true exactly when the pack is missing; and a
\* pack that is not missing is above 0.
C18_PackDerivation ==
    Loaded =>
        \A i \in 1..Len(ref_df) :
            LET r  == ref_df[i]
                mx == ValidPack(r.stdpack_max)
                mn == ValidPack(r.stdpack_min)
            IN  /\ mx => r.pack = r.stdpack_max
                /\ ~mx /\ mn => r.pack = r.stdpack_min
                /\ ~mx /\ ~mn => isna(r.pack)
                /\ r.pack_faltante <=> isna(r.pack)
                /\ ~isna(r.pack) => Val(r.pack) > 0

\* a loaded row whose stdpack_max is 0 took its pack from stdpack_min
C18_Witness ==
    /\ Loaded
    /\ \E i \in 1..Len(ref_df) :
          /\ ref_df[i].stdpack_max = Num(0)
          /\ ref_df[i].stdpack_min = Num(2)
          /\ ref_df[i].pack = Num(2)
          /\ ~ref_df[i].pack_faltante

\* the lines of the PRP file whose demand type is "customer releases" once
\* trimmed and put in lower case
Survivors ==
    {i \in 1..Len(prp_file.rows) :
        strip(lower(prp_file.rows[i].demand_type)) = CustomerReleases}

\* the quantity the surviving lines of the part hold in the date column
SurvivingQuantity(part) ==
    LET lines == SelectIdx(prp_file.rows,
                           {i \in Survivors : strip(prp_file.rows[i].Part_No) = part}, 1)
    IN  Sum([k \in 1..Len(lines) |-> fillna0(lines[k].qty[1])])

\* C19: load_prp's frame holds exactly the lines of the file whose demand
\* type is "customer releases" after trimming and lower-casing, and no line
\* of another demand type reaches the aggregation: every demand quantity is
\* the sum over the surviving lines of the part alone.
C19_OnlyCustomerReleases ==
    Loaded =>
        /\ Len(prp_df) = Cardinality(Survivors)
        /\ \A i \in 1..Len(prp_df) :
              strip(lower(prp_df[i].demand_type)) = CustomerReleases
        /\ \A d \in 1..Len(demand_df) :
              demand_df[d].Demanda_pzs = SurvivingQuantity(demand_df[d].Part_No)

\* a file whose first line is " Customer Releases " (padded) and whose
\* second line is a "Scheduled Orders" line of the same part was
\* aggregated: the demand is the first line's alone
C19_Witness ==
    /\ Len(prp_file.rows) = 2
    /\ prp_file.rows[1].demand_type = PaddedCustomerReleases
    /\ prp_file.rows[2].demand_type = ScheduledOrders
    /\ prp_file.rows[1].Part_No = P1
    /\ prp_file.rows[2].Part_No = P1
    /\ Len(prp_df) = 1
    /\ Len(demand_df) = 1
    /\ demand_df[1].Demanda_pzs = 2

---------------------------------------------------------------------------
(* Properties of the baseline of process_data *)

\* process_data has run and returned a baseline
Aggregated == pc \in {"compute_shortages", "build_priority", "present", "done"}

\* the reference rows the filter of process_data matches the part with: the
\* part numbers are equal once both are put in upper case
ReferenceRowsOf(part) ==
    {r \in 1..Len(ref_df) : upper(ref_df[r].partno) = upper(part)}

\* the baseline row carries the pack, flag, description and rate of the
\* reference row
Inherits(b, r) ==
    /\ b.pack = r.pack
    /\ b.pack_faltante = <<r.pack_faltante>>
    /\ b.Descripcion = r.desc
    /\ b.Rate = Num(r.rate)

\* C20: every part of the baseline has exactly one baseline row, it matches
\* a reference part under the filter's comparison, and its row carries the
\* pack, pack_faltante, description and rate of that reference row; a PRP
\* line whose part matches no reference part has no baseline row.
C20_BaselineInheritsReference ==
    Aggregated =>
        \A i \in 1..Len(base_df) :
            /\ \A j \in 1..Len(base_df) :
                  base_df[j].Part_No = base_df[i].Part_No => j = i
            /\ ReferenceRowsOf(base_df[i].Part_No) # {}
            /\ \A r \in ReferenceRowsOf(base_df[i].Part_No) :
                  Inherits(base_df[i], ref_df[r])

\* the same, for the baseline rows whose part number is spelled as in the
\* reference
BaselineInheritsWhenSpelledAlike ==
    Aggregated =>
        \A i \in 1..Len(base_df) :
            /\ \A j \in 1..Len(base_df) :
                  base_df[j].Part_No = base_df[i].Part_No => j = i
            /\ ReferenceRowsOf(base_df[i].Part_No) # {}
            /\ \A r \in 1..Len(ref_df) :
                  ref_df[r].partno = base_df[i].Part_No =>
                      Inherits(base_df[i], ref_df[r])

---------------------------------------------------------------------------
(* Properties of the demand collection of process_data *)

\* C21: after process_data the demand collection holds at most one entry
\* per part number and calendar date: the lines of a part and the date
\* columns that denote one date are summed into a single entry.
C21_OneEntryPerPartAndDate ==
    Aggregated =>
        \A i, j \in 1..Len(demand_df) :
            /\ demand_df[i].Part_No = demand_df[j].Part_No
            /\ demand_df[i].Fecha = demand_df[j].Fecha
            => i = j

\* the same, for a file whose date columns denote different dates
OneEntryPerPartAndDateOfDistinctDates ==
    Aggregated /\ (\A a, b \in 1..Len(date_cols) :
                      ParseDate(date_cols[a]) = ParseDate(date_cols[b]) => a = b)
        => \A i, j \in 1..Len(demand_df) :
              /\ demand_df[i].Part_No = demand_df[j].Part_No
              /\ demand_df[i].Fecha = demand_df[j].Fecha
              => i = j

\* the lines of load_prp's frame that carry the part number, in file order
LinesOf(part) == {i \in 1..Len(prp_df) : prp_df[i].Part_No = part}

\* C22 as claimed: the on-hand inventory of a baseline row is the Inv FG of
\* the first line of the part, whatever the other lines hold.
C22_OnHandOfFirstLine ==
    Aggregated =>
        \A b \in 1..Len(base_df) :
            LET first == CHOOSE i \in LinesOf(base_df[b].Part_No) :
                            \A j \in LinesOf(base_df[b].Part_No) : i <= j
            IN  base_df[b].InvFG_pzs = prp_df[first].Inv_FG

\* C22 as amended: the on-hand inventory of a baseline row is the Inv FG of
\* the first line of the part whose Inv FG is a number, and is missing when
\* no line has one; it is never the sum of the lines.
C22_OnHandOfFirstNumber ==
    Aggregated =>
        \A b \in 1..Len(base_df) :
            LET valid == {i \in LinesOf(base_df[b].Part_No) : ~isna(prp_df[i].Inv_FG)}
            IN  IF valid = {} THEN isna(base_df[b].InvFG_pzs)
                ELSE base_df[b].InvFG_pzs =
                        prp_df[CHOOSE i \in valid : \A j \in valid : i <= j].Inv_FG

\* a part with two lines, Inv FG 3 on the first and 5 on the second, has
\* the on-hand inventory 3
C22_Witness ==
    /\ Aggregated
    /\ \E b \in 1..Len(base_df) :
          /\ base_df[b].InvFG_pzs = Num(3)
          /\ \E i, j \in LinesOf(base_df[b].Part_No) :
                /\ i < j
                /\ prp_df[i].Inv_FG = Num(3)
                /\ prp_df[j].Inv_FG = Num(5)

---------------------------------------------------------------------------
(* Properties of build_priority as a function of the event frame *)

RankFields == {"cliente_priority", "part_priority"}

\* C23: a call of build_priority leaves every event as compute_shortages
\* wrote it: the event frame keeps its rows, their order and the value of
\* every column, each queue row carries the values of the event with its
\* row label, and the only columns added, to the queue and to the frame
\* itself, are the two ranks.
C23_EventsReadOnly ==
    [][pc = "build_priority" /\ shortages_df # <<>> =>
          /\ Len(shortages_df') = Len(shortages_df)
          /\ \A i \in 1..Len(shortages_df) :
                /\ DOMAIN shortages_df'[i] = DOMAIN shortages_df[i] \cup RankFields
                /\ \A f \in DOMAIN shortages_df[i] :
                      shortages_df'[i][f] = shortages_df[i][f]
          /\ \A q \in 1..Len(priority_df') :
                LET e == shortages_df[priority_df'[q].index + 1]
                IN  /\ DOMAIN priority_df'[q] = DOMAIN e \cup RankFields
                    /\ \A f \in DOMAIN e : priority_df'[q][f] = e[f]
    ]_vars

\* build_priority has moved an event of a customer whose name is not in
\* upper case ahead of an event that was before it in the frame
C23_Witness ==
    /\ Prioritized
    /\ \E a, b \in Queue :
          /\ a < b
          /\ priority_df[a].index > priority_df[b].index
          /\ priority_df[a].Cliente = FordMotorCo

---------------------------------------------------------------------------
(* Inputs of the part-independence scenarios: P1 with on-hand 3 and        *)
(* demands of 0, 2 or 4 in date columns that may denote one date twice,    *)
(* alone or with a line of P2                                              *)

IndependenceQty == {0, 2, 4}

IndependenceRefFile ==
    <<RefRow(P1, <<Num(2), Num(3)>>, ACME), RefRow(P2, <<Num(2), Num(3)>>, FordMotorCo)>>

IndependencePrpFiles ==
    UNION {{[headers |-> Headers(d),
             rows    |-> <<PrpRow(P1, 3, q1)>> \o others] :
               d \in DaySeqs(k), q1 \in [1..k -> IndependenceQty],
               others \in {<<>>, <<PrpRow(P2, 0, [c \in 1..k |-> 2])>>}} :
           k \in 1..MaxCols}

InitD ==
    /\ ref_file = IndependenceRefFile
    /\ prp_file \in IndependencePrpFiles
    /\ Start

SpecD == InitD /\ [][Next]_vars

---------------------------------------------------------------------------
(* Properties of compute_shortages across parts *)

\* the rows of a frame that carry the part number, in frame order
RowsOf(df, part) ==
    SelectIdx(df, {i \in 1..Len(df) : df[i].Part_No = part}, 1)

\* what the claim states of a part's events: date, shortage, containers
\* and first-shortage flag of each, in the order emitted
EventsOfPart(events, part) ==
    LET mine == RowsOf(events, part)
    IN  [i \in 1..Len(mine) |->
            [date       |-> mine[i].Fecha_Embarque,
             shortage   |-> mine[i].Faltante_pzs,
             containers |-> mine[i].Contenedores_a_producir,
             isFirst    |-> mine[i].Es_primer_faltante]]

\* the events compute_shortages gives the part when the baseline and the
\* demand collection hold the part alone, for each order sort_values may
\* give the part's demand entries
EventsOfPartAlone(part) ==
    {EventsOfPart(compute_shortages(RowsOf(base_df, part), sorted).events, part) :
        sorted \in sort_by_Fecha(RowsOf(demand_df, part))}

PartsIndependentOfDistinctDates ==
    Computed /\ (\A i, j \in 1..Len(demand_df) :
                    /\ demand_df[i].Part_No = demand_df[j].Part_No
                    /\ demand_df[i].Fecha = demand_df[j].Fecha
                    => i = j)
        => \A b \in 1..Len(base_df) :
              EventsOfPartAlone(base_df[b].Part_No)
                  = {EventsOfPart(shortages_df, base_df[b].Part_No)}

---------------------------------------------------------------------------
(* Properties of a part's pass after its first shortage *)

\* the events of the part and date
EventsAt(part, date) ==
    {i \in Events : /\ shortages_df[i].Part_No = part
                    /\ shortages_df[i].Fecha_Embarque = date}

\* C25: once an entry of a part's pass had a shortage, every later entry of
\* the pass meets a balance of 0 and leaves it 0; a later entry with
\* demand > 0 has one event, with Inventario_Actual 0, Faltante_pzs equal to
\* the demand and the first-shortage flag off, and a later entry with
\* demand 0 has none.
C25_BalanceStaysZeroAfterFirstShortage ==
    Computed =>
        \A j, k \in 1..Len(ledger) :
            /\ j < k
            /\ ledger[j].Part_No = ledger[k].Part_No
            /\ Uncovered(ledger[j])
            => LET x  == ledger[k]
                   at == EventsAt(x.Part_No, x.Fecha)
               IN  /\ x.before = Num(0)
                   /\ x.after = Num(0)
                   /\ x.Demanda_pzs > 0 =>
                         /\ Cardinality(at) = 1
                         /\ \A i \in at :
                               /\ shortages_df[i].Inventario_Actual = Num(0)
                               /\ shortages_df[i].Faltante_pzs = x.Demanda_pzs
                               /\ shortages_df[i].Es_primer_faltante = FALSE
                   /\ x.Demanda_pzs = 0 => at = {}

\* a pass whose first entry has the first shortage at a positive balance
\* and which then meets an entry without demand and an entry with demand
C25_Witness ==
    /\ Computed
    /\ Len(ledger) = 3
    /\ ~isna(ledger[1].before)
    /\ Val(ledger[1].before) > 0
    /\ Uncovered(ledger[1])
    /\ ledger[2].Demanda_pzs = 0
    /\ ledger[3].Demanda_pzs > 0
    /\ Len(shortages_df) = 2
    /\ shortages_df[2].Faltante_pzs = ledger[3].Demanda_pzs

---------------------------------------------------------------------------
(* Properties of a part's total shortage *)

\* the sum of the demand quantities of the part
TotalDemand(part) ==
    LET mine == RowsOf(demand_df, part)
    IN  Sum([i \in 1..Len(mine) |-> mine[i].Demanda_pzs])

\* the sum of Faltante_pzs over the events of the part
TotalShortage(part) ==
    LET mine == RowsOf(shortages_df, part)
    IN  Sum([i \in 1..Len(mine) |-> mine[i].Faltante_pzs])

\* C26: for every part whose on-hand inventory is >= 0 and whose demand
\* quantities are all >= 0, the shortages of the part's events add up to
\* max(0, total demand - on-hand), and the part has an event exactly when
\* its total demand exceeds its on-hand inventory.
C26_TotalShortage ==
    Computed =>
        \A b \in 1..Len(base_df) :
            LET part == base_df[b].Part_No
            IN  OnHandNonNegative(part) /\ DemandsNonNegative(part) =>
                    /\ TotalShortage(part)
                         = Max(0, TotalDemand(part) - Val(OnHandOf(part)))
                    /\ RowsOf(shortages_df, part) # <<>>
                         <=> TotalDemand(part) > Val(OnHandOf(part))

\* a part whose on-hand covers its first demand and part of a later one,
\* with two events after that
C26_Witness ==
    /\ Computed
    /\ Len(base_df) = 1
    /\ OnHandNonNegative(base_df[1].Part_No)
    /\ Val(OnHandOf(base_df[1].Part_No)) > 0
    /\ Len(ledger) = 3
    /\ ledger[1].Demanda_pzs > 0
    /\ ~Uncovered(ledger[1])
    /\ Len(shortages_df) = 2
    /\ Val(shortages_df[1].Inventario_Actual) > 0
    /\ TotalShortage(base_df[1].Part_No) > shortages_df[2].Faltante_pzs

---------------------------------------------------------------------------
(* Properties of the customer key of the queue's sort *)

\* the sort key of a row without the customer rank
KeyWithoutCustomer(r) ==
    <<IF r.Es_primer_faltante THEN 0 ELSE 1, r.part_priority, r.Fecha_Embarque>>

\* the ranked event frame sorted on the key without the customer rank
QueueWithoutCustomerKey ==
    sort_values(shortages_df,
                [i \in 1..Len(shortages_df) |-> KeyWithoutCustomer(shortages_df[i])])

---------------------------------------------------------------------------
(* Properties of the queue as a rearrangement of the events *)

\* how many rows of the frame equal the row
Copies(df, row) == Cardinality({i \in 1..Len(df) : df[i] = row})

\* C28: the queue holds the rows of the ranked event frame, each as many
\* times as the frame does and no other row, and build_priority applied to
\* the queue returns the queue.
C28_PermutationAndIdempotent ==
    Prioritized =>
        /\ Len(priority_df) = Len(shortages_df)
        /\ \A i \in Events :
              Copies(priority_df, shortages_df[i]) = Copies(shortages_df, shortages_df[i])
        /\ \A q \in Queue : Copies(shortages_df, priority_df[q]) > 0
        /\ build_priority(priority_df) = priority_df

\* a queue of events of two parts that is not in the order of the event
\* frame: the second part's first event stands ahead of a later event of
\* the first part
C28_Witness ==
    /\ Prioritized
    /\ Len(priority_df) >= 3
    /\ \E a, b \in Queue :
          /\ a < b
          /\ priority_df[a].index > priority_df[b].index
          /\ priority_df[a].part_priority = 1
          /\ priority_df[b].part_priority = 0

---------------------------------------------------------------------------
(* ReferenceData (src/app/reference_data.py): the store of part rows kept  *)
(* in st.session_state when no reference file exists.  A row is modelled   *)
(* by its part_number, std_pack and cycle_time columns.                    *)

MaxRows == 3
MaxImport == 2

\* `part_number in self.data['part_number'].values`
in_values(table, part_number) ==
    \E i \in 1..Len(table) : table[i].part_number = part_number

\* self.data[self.data['part_number'] == part_number], in row order
rows_of(table, part_number) ==
    SelectIdx(table, {i \in 1..Len(table) : table[i].part_number = part_number}, 1)

\* self.data.loc[self.data['part_number'] == part_number, key] = value for
\* every key of the assignment that is a column of the table
assign(table, part_number, values) ==
    [i \in 1..Len(table) |->
        IF table[i].part_number = part_number
        THEN [f \in DOMAIN table[i] |->
                 IF f \in DOMAIN values THEN values[f] ELSE table[i][f]]
        ELSE table[i]]

\* add_part: the row is appended and the table saved
add_part(table, part_number, std_pack, cycle_time) ==
    [data   |-> table \o <<[part_number |-> part_number, std_pack |-> std_pack,
                            cycle_time |-> cycle_time]>>,
     saved  |-> TRUE,
     result |-> TRUE]

\* update_part: False for a part that is not in the table, else the
\* columns named by kwargs are assigned on the part's rows and the table
\* saved
update_part(table, part_number, kwargs) ==
    IF ~in_values(table, part_number)
    THEN [data |-> table, saved |-> FALSE, result |-> FALSE]
    ELSE [data |-> assign(table, part_number, kwargs), saved |-> TRUE, result |-> TRUE]

\* delete_part that removes the first row of the part only
delete_part_first_row(table, part_number) ==
    IF ~in_values(table, part_number)
    THEN [data |-> table, saved |-> FALSE, result |-> FALSE]
    ELSE LET first == CHOOSE i \in 1..Len(table) :
                         /\ table[i].part_number = part_number
                         /\ \A j \in 1..(i - 1) : table[j].part_number # part_number
         IN  [data   |-> SelectIdx(table, (1..Len(table)) \ {first}, 1),
              saved  |-> TRUE,
              result |-> TRUE]

\* delete_part: False for a part that is not in the table, else the rows
\* of other parts are kept and the table saved
delete_part(table, part_number) ==
    IF ~in_values(table, part_number)
    THEN [data |-> table, saved |-> FALSE, result |-> FALSE]
    ELSE [data   |-> SelectIdx(table, {i \in 1..Len(table) :
                                          table[i].part_number # part_number}, 1),
          saved  |-> TRUE,
          result |-> TRUE]

\* get_part: None (<<>>) for a part that is not in the table, else the
\* first of its rows (<<row>>)
get_part(table, part_number) ==
    IF ~in_values(table, part_number) THEN <<>>
    ELSE <<rows_of(table, part_number)[1]>>

\* the loop of import_from_dataframe(df, replace=False) from row k of df on:
\* a row of a part in the table is assigned to the part's rows, a row of a
\* new part is appended
RECURSIVE import_rows(_, _, _)
import_rows(table, df, k) ==
    IF k > Len(df) THEN table
    ELSE IF in_values(table, df[k].part_number)
         THEN import_rows(assign(table, df[k].part_number, df[k]), df, k + 1)
         ELSE import_rows(table \o <<df[k]>>, df, k + 1)

\* import_from_dataframe: the frame replaces the table or is merged into it
import_from_dataframe(table, df, replace) ==
    [data   |-> IF replace THEN df ELSE import_rows(table, df, 1),
     saved  |-> TRUE,
     result |-> TRUE]

\* the arguments the calls are made with
PartNumbers == {P1, P2}
StdPacks == {1, 2}
CycleTimes == {30}

Kwargs ==
    {[std_pack |-> 1], [std_pack |-> 2], [cycle_time |-> 45],
     [std_pack |-> 2, cycle_time |-> 45], [weight |-> 9], [part_number |-> P2]}

ImportRows ==
    [part_number : PartNumbers, std_pack : StdPacks, cycle_time : CycleTimes]

ImportFrames == UNION {[1..n -> ImportRows] : n \in 0..MaxImport}

\* each call that changes the store leaves the table, what save() wrote,
\* whether save() was reached, and the call with its return value

AddPart ==
    \E p \in PartNumbers, k \in StdPacks, c \in CycleTimes :
        LET out == add_part(data, p, k, c)
        IN  /\ Len(out.data) <= MaxRows
            /\ data' = out.data
            /\ reference_data' = IF out.saved THEN out.data ELSE reference_data
            /\ saved' = out.saved
            /\ returned' = [op |-> "add_part", part_number |-> p, value |-> out.result]
            /\ UNCHANGED <<run_vars, cache_vars>>

UpdatePart ==
    \E p \in PartNumbers, kwargs \in Kwargs :
        LET out == update_part(data, p, kwargs)
        IN  /\ data' = out.data
            /\ reference_data' = IF out.saved THEN out.data ELSE reference_data
            /\ saved' = out.saved
            /\ returned' = [op |-> "update_part", part_number |-> p, value |-> out.result]
            /\ UNCHANGED <<run_vars, cache_vars>>

DeletePart ==
    \E p \in PartNumbers :
        LET out == delete_part(data, p)
        IN  /\ data' = out.data
            /\ reference_data' = IF out.saved THEN out.data ELSE reference_data
            /\ saved' = out.saved
            /\ returned' = [op |-> "delete_part", part_number |-> p, value |-> out.result]
            /\ UNCHANGED <<run_vars, cache_vars>>

ImportFromDataframe ==
    \E df \in ImportFrames, replace \in BOOLEAN :
        LET out == import_from_dataframe(data, df, replace)
        IN  /\ Len(out.data) <= MaxRows
            /\ data' = out.data
            /\ reference_data' = IF out.saved THEN out.data ELSE reference_data
            /\ saved' = out.saved
            /\ returned' = [op |-> "import_from_dataframe", part_number |-> <<>>,
                            value |-> out.result]
            /\ UNCHANGED <<run_vars, cache_vars>>

GetPart ==
    \E p \in PartNumbers :
        /\ returned' = [op |-> "get_part", part_number |-> p,
                        value |-> get_part(data, p)]
        /\ saved' = FALSE
        /\ UNCHANGED <<data, reference_data, run_vars, cache_vars>>

NextR == AddPart \/ UpdatePart \/ DeletePart \/ ImportFromDataframe \/ GetPart

InitR ==
    /\ ref_file = <<>>
    /\ prp_file = [headers |-> <<>>, rows |-> <<>>]
    /\ Start

SpecR == InitR /\ [][NextR]_vars

---------------------------------------------------------------------------
(* Properties of the ReferenceData store *)

\* the latest call was the operation on the part
Called(op, part_number) ==
    returned.op = op /\ returned.part_number = part_number

\* C29: update_part and delete_part on a part that is not in the table
\* return False, leave the table and what was saved unchanged and do not
\* reach save(); delete_part on a part that is in the table returns True,
\* saves, and leaves no row of the part, so that get_part returns None.
C29_AbsentRefusedPresentDeleted ==
    [][\A p \in PartNumbers :
          /\ returned'.op \in {"update_part", "delete_part"}
               /\ returned'.part_number = p /\ ~in_values(data, p)
               => /\ returned'.value = FALSE
                  /\ data' = data
                  /\ reference_data' = reference_data
                  /\ saved' = FALSE
          /\ returned'.op = "delete_part"
               /\ returned'.part_number = p /\ in_values(data, p)
               => /\ returned'.value = TRUE
                  /\ saved' = TRUE
                  /\ reference_data' = data'
                  /\ rows_of(data', p) = <<>>
                  /\ get_part(data', p) = <<>>
                  /\ \A q \in PartNumbers \ {p} : rows_of(data', q) = rows_of(data, q)
      ]_vars

\* delete_part of a part with rows in the table returned True and left the
\* row of the other part, saved
C29_Witness ==
    /\ Called("delete_part", P1)
    /\ returned.value = TRUE
    /\ saved
    /\ Len(data) = 1
    /\ data[1].part_number = P2
    /\ reference_data = data

\* a refused update_part or delete_part on a table that holds the other part
RefusedCall ==
    /\ returned.op \in {"update_part", "delete_part"}
    /\ returned.value = FALSE
    /\ data # <<>>
    /\ ~saved

\* C30: part_number is a unique key of the table: no two rows of the
\* table carry the same part number.
C30_PartNumberUnique ==
    \A i, j \in 1..Len(data) :
        data[i].part_number = data[j].part_number => i = j

\* get_part of a part right after add_part of that part returns the row
\* just added
GetAfterAddReturnsAdded ==
    [][\A p \in PartNumbers :
          /\ Called("add_part", p)
          /\ returned'.op = "get_part"
          /\ returned'.part_number = p
          => returned'.value = <<data[Len(data)]>>
      ]_vars

\* the same, for an add_part of a part the table did not hold: the row
\* returned is the only row of the part
GetReturnsTheOnlyRow ==
    [][\A p \in PartNumbers :
          /\ returned'.op = "get_part"
          /\ returned'.part_number = p
          /\ Len(rows_of(data, p)) = 1
          => returned'.value = rows_of(data, p)
      ]_vars

=============================================================================
